---- MODULE Spec2Model ----
(***************************************************************************)
(* pocket-esp32-gps: the NMEA sentence parser (GPSHandler), the BLE NMEA   *)
(* notifier (BtNMEAHandler), the power state controller (PowerManager, in  *)
(* its two revisions) and the boot glue, as one state machine.             *)
(*                                                                         *)
(* Python values are tagged records, so that None, numbers, strings and    *)
(* lists can be held by the same field and compared.  Python strings are   *)
(* TLA+ strings; bytes read from the UART are strings whose character      *)
(* NonAscii stands for any byte >= 0x80.  Floats are exact rationals n/d   *)
(* in lowest terms.                                                        *)
(***************************************************************************)
EXTENDS Integers, Sequences, FiniteSets, TLC

VARIABLES
    \* ---- GPSHandler (gps_handler_v2.py)
    gps_data,          \* self.gps_data
    uart_readline,     \* self.uart_readline is set (UART initialised)
    update_interval,   \* self.update_interval (ms)
    led,               \* <<success, error>> as last set through led_handler
    gps_call,          \* the most recent read_gps call: its input, outcome and pre-state
    last_pps_time,     \* self.last_pps_time
    pps_call,          \* the pps_handler calls so far: the clock, the pin level, the pulses
    \* ---- BtNMEAHandler (bt_nmea_handler.py)
    ble,               \* the handler's fields and the radio it drives
    refresh,           \* the _update_nmea_data call in progress: its position and locals
    \* ---- PowerManager (power_management.py / power_management_v2.py), boot_v2.py
    pm,                \* the controller's fields and its timers
    dev,               \* collaborators the controller drives: display, GPS power, boot timer, clock
    \* ---- boot_v2.py
    main               \* main(): its loop's locals and the recovery timers it has armed

vars == <<gps_data, uart_readline, update_interval, led, gps_call, last_pps_time, pps_call,
          ble, refresh, pm, dev, main>>

(***************************************************************************)
(* Python values                                                           *)
(***************************************************************************)
None == [t |-> "None"]
Num(n, d) == [t |-> "num", n |-> n, d |-> d]
Str(s) == [t |-> "str", v |-> s]
List(q) == [t |-> "list", v |-> q]

Min(a, b) == IF a < b THEN a ELSE b
Max(a, b) == IF a > b THEN a ELSE b
Abs(a) == IF a < 0 THEN -a ELSE a

RECURSIVE Gcd(_, _)
Gcd(a, b) == IF b = 0 THEN a ELSE Gcd(b, a % b)

\* The float with value n/d (d > 0), in lowest terms.
Reduced(n, d, k) == Num(n \div k, d \div k)
Float(n, d) == Reduced(n, d, Gcd(Abs(n), d))

\* Python truthiness of a tagged value.
Truthy(v) ==
    CASE v.t = "None" -> FALSE
      [] v.t = "num" -> v.n # 0
      [] v.t = "str" -> v.v # ""
      [] v.t = "list" -> v.v # <<>>

(***************************************************************************)
(* Python string operations                                                *)
(***************************************************************************)
NonAscii == "^"
Whitespace == {" ", "\t", "\r", "\n"}
Digits == {"0", "1", "2", "3", "4", "5", "6", "7", "8", "9"}
DigitVal == "0" :> 0 @@ "1" :> 1 @@ "2" :> 2 @@ "3" :> 3 @@ "4" :> 4 @@
            "5" :> 5 @@ "6" :> 6 @@ "7" :> 7 @@ "8" :> 8 @@ "9" :> 9

\* s[i] for 0 <= i < len(s)
CharAt(s, i) == SubSeq(s, i + 1, i + 1)

\* s[a:b] for 0 <= a, 0 <= b (Python clamps both ends)
Slice(s, a, b) ==
    LET hi == Min(b, Len(s)) IN IF a >= hi THEN "" ELSE SubSeq(s, a + 1, hi)

\* s[:-k] and s[-k:] for k > 0
DropLast(s, k) == Slice(s, 0, Max(Len(s) - k, 0))
TakeLast(s, k) == Slice(s, Max(Len(s) - k, 0), Len(s))

StartsWith(s, p) == Len(s) >= Len(p) /\ SubSeq(s, 1, Len(p)) = p

RECURSIVE LStrip(_)
LStrip(s) ==
    IF s # "" /\ CharAt(s, 0) \in Whitespace THEN LStrip(Slice(s, 1, Len(s))) ELSE s

RECURSIVE RStrip(_)
RStrip(s) ==
    IF s # "" /\ CharAt(s, Len(s) - 1) \in Whitespace THEN RStrip(DropLast(s, 1)) ELSE s

\* s.strip()
Strip(s) == RStrip(LStrip(s))

\* bytes.decode("ascii", "ignore"): bytes that are not ASCII are left out (the
\* string is halved at each step to keep the evaluation shallow)
RECURSIVE DecodeAsciiIgnore(_)
DecodeAsciiIgnore(b) ==
    IF Len(b) = 0 THEN ""
    ELSE IF Len(b) = 1 THEN (IF b = NonAscii THEN "" ELSE b)
    ELSE DecodeAsciiIgnore(Slice(b, 0, Len(b) \div 2))
         \o DecodeAsciiIgnore(Slice(b, Len(b) \div 2, Len(b)))

\* position (1-based) of the first c in s at or after i, 0 when there is none
RECURSIVE FindChar(_, _, _)
FindChar(s, c, i) ==
    IF i > Len(s) THEN 0
    ELSE IF SubSeq(s, i, i) = c THEN i ELSE FindChar(s, c, i + 1)

\* s.split(c): the list of fields, 1-based here, 0-based in the source
RECURSIVE Split(_, _)
Split(s, c) ==
    LET k == FindChar(s, c, 1) IN
    IF k = 0 THEN <<s>>
    ELSE <<Slice(s, 0, k - 1)>> \o Split(Slice(s, k, Len(s)), c)

\* data[i] of the source (0-based); the caller checks i < len(data)
At(data, i) == data[i + 1]

\* sep.join(q)
RECURSIVE Join(_, _)
Join(sep, q) ==
    IF q = <<>> THEN ""
    ELSE IF Len(q) = 1 THEN q[1] ELSE q[1] \o sep \o Join(sep, Tail(q))

RECURSIVE AllIn(_, _)
AllIn(s, set) ==
    s = "" \/ (CharAt(s, 0) \in set /\ AllIn(Slice(s, 1, Len(s)), set))

RECURSIVE DigitsValue(_, _)
DigitsValue(s, acc) ==
    IF s = "" THEN acc
    ELSE DigitsValue(Slice(s, 1, Len(s)), 10 * acc + DigitVal[CharAt(s, 0)])

RECURSIVE Pow10(_)
Pow10(k) == IF k = 0 THEN 1 ELSE 10 * Pow10(k - 1)

\* The sign and the rest of a numeric literal u that has no surrounding whitespace.
SignedOf(u) ==
    IF u # "" /\ CharAt(u, 0) \in {"+", "-"}
    THEN [neg |-> CharAt(u, 0) = "-", body |-> Slice(u, 1, Len(u))]
    ELSE [neg |-> FALSE, body |-> u]
Signed(s) == SignedOf(Strip(s))

\* float(s) on the literals [ws][sign]digits[.digits][ws] (a digit on one side of
\* the point at least); ok = FALSE is ValueError.  Exponents, inf and nan are
\* outside the inputs drawn here.  ip and fp are the digits before and after the
\* point, k the position of the point in the body b (0 for none).
FloatOfDigits(neg, ip, fp) ==
    IF AllIn(ip, Digits) /\ AllIn(fp, Digits) /\ Len(ip) + Len(fp) > 0
    THEN [ok |-> TRUE,
          v |-> Float((IF neg THEN -1 ELSE 1) * DigitsValue(ip \o fp, 0), Pow10(Len(fp)))]
    ELSE [ok |-> FALSE, v |-> None]
FloatOfBody(neg, b, k) ==
    FloatOfDigits(neg, IF k = 0 THEN b ELSE Slice(b, 0, k - 1),
                       IF k = 0 THEN "" ELSE Slice(b, k, Len(b)))
FloatOfSigned(sg) == FloatOfBody(sg.neg, sg.body, FindChar(sg.body, ".", 1))
ParseFloat(s) == FloatOfSigned(Signed(s))

\* int(s) on the literals [ws][sign]digits[ws]; ok = FALSE is ValueError.
IntOfSigned(sg) ==
    IF sg.body # "" /\ AllIn(sg.body, Digits)
    THEN [ok |-> TRUE, v |-> Num((IF sg.neg THEN -1 ELSE 1) * DigitsValue(sg.body, 0), 1)]
    ELSE [ok |-> FALSE, v |-> None]
ParseInt(s) == IntOfSigned(Signed(s))

\* a + b and a * k on floats
FAdd(a, b) == Float(a.n * b.d + b.n * a.d, a.d * b.d)
FDivInt(a, k) == Float(a.n, a.d * k)
FMulInt(a, k) == Float(a.n * k, a.d)

\* `s and s.strip()` as a condition
NonBlank(s) == s # "" /\ Strip(s) # ""

(***************************************************************************)
(* GPSHandler (gps_handler_v2.py)                                          *)
(***************************************************************************)
GpsDataInit ==
    [fix |-> "No Fix", lat |-> Num(0, 1), lon |-> Num(0, 1), alt |-> Num(0, 1),
     sats |-> Num(0, 1), pps |-> Num(0, 1), hdop |-> Num(0, 1),
     utc_time |-> None, utc_date |-> None, speed_knots |-> Num(0, 1),
     course |-> None, satellites |-> <<>>, satellites_in_view |-> Num(0, 1),
     raw_nmea |-> ("GPRMC" :> None @@ "GNRMC" :> None @@ "GPGGA" :> None @@
                   "GNGGA" :> None @@ "OTHER" :> List(<<>>))]

\* set_update_interval: a floor of 100 ms
set_update_interval(interval_ms) == Max(interval_ms, 100)

\* A conversion that takes the minutes for hundredths of a degree
DegMinSumHundredths(degrees, minutes) ==
    IF ~degrees.ok \/ ~minutes.ok THEN None
    ELSE FAdd(degrees.v, FDivInt(minutes.v, 100))

\* convert_to_decimal (lines 100-112): DDDMM.MMMM to decimal degrees, None for
\* what it rejects.  DegMinSum is lines 107-112 on the two float() results,
\* DegMinOfParts lines 105-108 on the result of split(".").
DegMinSum(degrees, minutes) ==
    IF ~degrees.ok \/ ~minutes.ok THEN None
    ELSE FAdd(degrees.v, FDivInt(minutes.v, 60))
DegMinOfParts(parts) ==
    IF Len(parts) # 2 \/ Len(parts[1]) < 3 THEN None
    ELSE DegMinSum(ParseFloat(DropLast(parts[1], 2)),
                   ParseFloat(TakeLast(parts[1], 2) \o "." \o parts[2]))
convert_to_decimal(degrees_minutes) ==
    IF ~NonBlank(degrees_minutes) THEN None
    ELSE DegMinOfParts(Split(degrees_minutes, "."))

\* time.ticks_us() counts modulo TICKS_PERIOD (2^30 on the ESP32 port), and
\* time.ticks_diff(a, b) is the signed difference a - b on that ring, from
\* -TICKS_PERIOD/2 up to TICKS_PERIOD/2 - 1.
TICKS_PERIOD == 1073741824
ticks_diff(a, b) ==
    ((a - b + TICKS_PERIOD \div 2) % TICKS_PERIOD) - TICKS_PERIOD \div 2

\* A handler that tests the stored timestamp for truth instead of `is not None`
PpsHandlerTruthTest(g, last, current_time, pin_value) ==
    IF pin_value # 1 THEN [g |-> g, last |-> last]
    ELSE [g |-> IF Truthy(last)
                THEN [g EXCEPT !.pps = Num(ticks_diff(current_time, last.n), 1)]
                ELSE g,
          last |-> Num(current_time, 1)]

\* pps_handler (lines 86-95) on the snapshot and self.last_pps_time, with
\* current_time what ticks_us() returns and pin_value what pin.value() returns
PpsHandler(g, last, current_time, pin_value) ==
    IF pin_value # 1 THEN [g |-> g, last |-> last]
    ELSE [g |-> IF last # None
                THEN [g EXCEPT !.pps = Num(ticks_diff(current_time, last.n), 1)]
                ELSE g,
          last |-> Num(current_time, 1)]

\* What the body of read_gps's try block has done so far: the snapshot, the LEDs,
\* and how the block goes on or was left: "done" (running, or fell through),
\* "return_none", "return_data" (a return inside the block), "caught" (an
\* exception, absorbed by the except clause of line 205).
R(g, ledv, out) == [g |-> g, led |-> ledv, out |-> out]
Caught(r) == [r EXCEPT !.out = "caught"]

\* `float(x) if (x and x.strip()) else default`, and the same with int()
OptFloat(x, default) == IF NonBlank(x) THEN ParseFloat(x) ELSE [ok |-> TRUE, v |-> default]
OptInt(x, default) == IF NonBlank(x) THEN ParseInt(x) ELSE [ok |-> TRUE, v |-> default]

\* gps_data[field] = <parsed>: the assignment, or the ValueError of the conversion
Assign(r, field, parsed) ==
    IF parsed.ok THEN [r EXCEPT !.g[field] = parsed.v] ELSE Caught(r)

\* The raw cache write (lines 134-140).  AppendOther is lines 138-140 on the
\* list after append.
AppendOther(g, ledv, appended) ==
    R([g EXCEPT !.raw_nmea["OTHER"] =
          List(IF Len(appended) > 10 THEN Tail(appended) ELSE appended)], ledv, "done")
StoreRawAs(g, ledv, line_decoded, nmea_type) ==
    IF nmea_type \in DOMAIN g.raw_nmea
    THEN R([g EXCEPT !.raw_nmea[nmea_type] = Str(line_decoded)], ledv, "done")
    ELSE IF g.raw_nmea["OTHER"].t # "list"
         THEN R(g, ledv, "caught")      \* str has no append: AttributeError
         ELSE AppendOther(g, ledv, Append(g.raw_nmea["OTHER"].v, line_decoded))
StoreRaw(g, ledv, line_decoded) == StoreRawAs(g, ledv, line_decoded, Slice(line_decoded, 1, 6))

\* The statements of the valid-fix block of the RMC branch, each on what the
\* statements before it left: an exception ends the block with their writes kept.
\* lines 157-158
RmcTime(r, t) ==
    IF Len(t) >= 6
    THEN [r EXCEPT !.g.utc_time =
             Str(Slice(t, 0, 2) \o ":" \o Slice(t, 2, 4) \o ":" \o Slice(t, 4, 6))]
    ELSE r
\* lines 160-161
RmcDate(r, data) ==
    IF Len(data) >= 10 /\ Len(At(data, 9)) >= 6
    THEN [r EXCEPT !.g.utc_date =
             Str("20" \o Slice(At(data, 9), 4, 6) \o "-" \o Slice(At(data, 9), 2, 4)
                      \o "-" \o Slice(At(data, 9), 0, 2))]
    ELSE r
\* lines 163-168, on the two converted values
RmcLatLon(r, lat, lon, data) ==
    [r EXCEPT !.g.lat = IF Truthy(lat)
                        THEN FMulInt(lat, IF At(data, 4) = "S" THEN -1 ELSE 1) ELSE @,
              !.g.lon = IF Truthy(lon)
                        THEN FMulInt(lon, IF At(data, 6) = "W" THEN -1 ELSE 1) ELSE @]
\* A speed statement that adds the parsed speed to the stored one
RmcSpeedAccumulating(r, data) ==
    IF r.out # "done" THEN r
    ELSE IF Len(data) < 8 THEN Caught(r)
    ELSE IF ~OptFloat(At(data, 7), Num(0, 1)).ok THEN Caught(r)
    ELSE [r EXCEPT !.g.speed_knots = FAdd(@, OptFloat(At(data, 7), Num(0, 1)).v)]

\* line 170; data[7] raises IndexError on a list of 7
RmcSpeed(r, data) ==
    IF r.out # "done" THEN r
    ELSE IF Len(data) < 8 THEN Caught(r)
    ELSE Assign(r, "speed_knots", OptFloat(At(data, 7), Num(0, 1)))
\* line 171; data[8] raises IndexError on a list of 8
RmcCourse(r, data) ==
    IF r.out # "done" THEN r
    ELSE IF Len(data) < 9 THEN Caught(r)
    ELSE Assign(r, "course", OptFloat(At(data, 8), None))

\* The valid-fix block (lines 155-171)
ParseRMCFix(r, data) ==
    RmcCourse(
        RmcSpeed(
            RmcLatLon(RmcDate(RmcTime(r, At(data, 1)), data),
                      convert_to_decimal(At(data, 3)), convert_to_decimal(At(data, 5)),
                      data),
            data),
        data)

\* An RMC branch that reads the fields of a sentence whatever its flag
ParseRMCIgnoringFlag(g, ledv, data) ==
    IF Len(data) < 7 THEN R(g, ledv, "return_data")
    ELSE IF At(data, 2) = "A"
         THEN ParseRMCFix(R([g EXCEPT !.fix = "Valid"], <<1, 0>>, "done"), data)
         ELSE ParseRMCFix(R([g EXCEPT !.fix = "No Fix"], <<0, 1>>, "done"), data)

\* The RMC branch (lines 146-171)
ParseRMC(g, ledv, data) ==
    IF Len(data) < 7 THEN R(g, ledv, "return_data")
    ELSE IF At(data, 2) = "A"
         THEN ParseRMCFix(R([g EXCEPT !.fix = "Valid"], <<1, 0>>, "done"), data)
         ELSE R([g EXCEPT !.fix = "No Fix"], <<0, 1>>, "done")

\* An altitude statement that also resets the fix status and the position
GgaAltResettingFix(r, data) ==
    Assign([r EXCEPT !.g.fix = "No Fix", !.g.lat = Num(0, 1), !.g.lon = Num(0, 1)],
           "alt", OptFloat(At(data, 9), Num(0, 1)))

\* The statements of the GGA branch: lines 177, 178, 179
GgaAlt(r, data) == Assign(r, "alt", OptFloat(At(data, 9), Num(0, 1)))
GgaSats(r, data) ==
    IF r.out # "done" THEN r ELSE Assign(r, "sats", OptInt(At(data, 7), Num(0, 1)))
GgaHdop(r, data) ==
    IF r.out # "done" THEN r ELSE Assign(r, "hdop", OptFloat(At(data, 8), None))

\* The GGA branch (lines 174-179)
ParseGGA(g, ledv, data) ==
    IF Len(data) < 10 THEN R(g, ledv, "return_data")
    ELSE GgaHdop(GgaSats(GgaAlt(R(g, ledv, "done"), data), data), data)

\* `int(x) if x else None` on a stripped field (lines 198-200)
IntOrNone(x) == IF x = "" THEN [ok |-> TRUE, v |-> None] ELSE ParseInt(x)

\* One group of the satellite loop (lines 189-203): the dict that is appended, or
\* nothing when the id is blank or a conversion raises ValueError
SatEntry(id, elev, azim, snr) ==
    IF id.ok /\ elev.ok /\ azim.ok /\ snr.ok
    THEN <<[id |-> id.v, elevation |-> elev.v, azimuth |-> azim.v, snr |-> snr.v]>>
    ELSE <<>>
SatGroup(sat_id, elev, azim, snr_val) ==
    IF sat_id = "" THEN <<>>
    ELSE SatEntry(ParseInt(sat_id), IntOrNone(elev), IntOrNone(azim), IntOrNone(snr_val))

\* The satellite loop (line 188): for i in range(4, len(data) - 3, 4)
RECURSIVE SatGroups(_, _)
SatGroups(data, i) ==
    IF i >= Len(data) - 3 THEN <<>>
    ELSE SatGroup(Strip(At(data, i)), Strip(At(data, i + 1)),
                  Strip(At(data, i + 2)), Strip(At(data, i + 3)))
         \o SatGroups(data, i + 4)

\* lines 185-203 on the converted satellites-in-view count
GsvStore(g, ledv, inview, data) ==
    IF ~inview.ok THEN R(g, ledv, "caught")
    ELSE R([g EXCEPT !.satellites_in_view = inview.v,
                     !.satellites = SatGroups(data, 4)], ledv, "done")

\* The GSV branch (lines 182-203)
ParseGSV(g, ledv, data) ==
    IF Len(data) < 4 THEN R(g, ledv, "return_data")
    ELSE GsvStore(g, ledv, OptInt(At(data, 3), Num(0, 1)), data)

\* The branches of lines 146-203 on what the cache write left
Route(stored, line_decoded, data) ==
    IF stored.out = "caught" THEN stored
    ELSE IF StartsWith(line_decoded, "$GPRMC") \/ StartsWith(line_decoded, "$GNRMC")
         THEN ParseRMC(stored.g, stored.led, data)
    ELSE IF StartsWith(line_decoded, "$GPGGA") \/ StartsWith(line_decoded, "$GNGGA")
         THEN ParseGGA(stored.g, stored.led, data)
    ELSE IF StartsWith(line_decoded, "$GPGSV") \/ StartsWith(line_decoded, "$GNGSV")
         THEN ParseGSV(stored.g, stored.led, data)
    ELSE stored

\* lines 128-203 on the decoded line
ReadDecoded(g, ledv, line_decoded) ==
    IF ~StartsWith(line_decoded, "$") THEN R(g, ledv, "return_none")
    ELSE Route(StoreRaw(g, ledv, line_decoded), line_decoded, Split(line_decoded, ","))

\* The try block of read_gps (lines 126-203) on the bytes `line`
ReadLine(g, ledv, line) == ReadDecoded(g, ledv, Strip(DecodeAsciiIgnore(line)))

\* The wait that ends read_gps (lines 211-215): sleep_ms plus lightsleep, in ms.
CadenceWait(interval) == Max(interval - 100, 0) + Min(interval, 100)

(***************************************************************************)
(* BtNMEAHandler (bt_nmea_handler.py)                                      *)
(***************************************************************************)
UPDATE_INTERVAL == 2
APP_NAME == "ESP32-GNSS-GPS"
Placeholders ==
    <<"$GNGGA,000000.00,0000.0000,N,00000.0000,E,0,00,99.99,0.0,M,,M,,*56",
      "$GNRMC,000000.00,V,0000.0000,N,000000.0000,E,0.0,0.0,010170,,,N*48">>

\* Connection handles the radio stack hands out, and the attribute handles
\* gatts_register_services may return (never 0, which no attribute has).
Handles == {0, 1}
ValueHandles == {1, 2}

\* How many times a behaviour of the model powers the radio up through activate().
MaxActivations == 2

\* The handler after __init__ (lines 22-34), with the radio it owns:
\*   radio       bluetooth.BLE().active()
\*   link        the connections the stack holds
\*   advertising gap_advertise is in effect
\*   registered  how many times gatts_register_services was called
\*   security    config(mitm, bond, le_secure, pin) / gap_set_security were applied
\*   value       the characteristic's value (gatts_write), None before it exists
\*   notified    the handles the last refresh notified
\*   forced      the handles the last connect event disconnected (gap_disconnect)
\*   irq_error   the last event handler raised (KeyError)
\*   notify_failed   the handles whose gatts_notify raised in the last refresh
\*   refreshed_from  the raw cache the value was built from by the last refresh
\*               (_update_nmea_data), None while the value comes from elsewhere
\*   attr_UPDATE_INTERVAL  the instance attribute _UPDATE_INTERVAL, None while unset
BleInit ==
    [radio |-> FALSE, link |-> {}, advertising |-> FALSE, registered |-> 0,
     security |-> FALSE, value |-> None, notified |-> {}, forced |-> {},
     irq_error |-> FALSE, notify_failed |-> {}, refreshed_from |-> None, attr_UPDATE_INTERVAL |-> None,
     connections |-> {}, nmea_handle |-> None, adv_payload |-> None,
     is_active |-> FALSE]

\* _init_ble_services (lines 36-64) with the attribute handle the stack returns
_init_ble_services(b, h) ==
    [b EXCEPT !.registered = @ + 1,
              !.nmea_handle = Num(h, 1),
              !.value = Str(""),
              !.refreshed_from = None,
              !.security = TRUE,
              !.adv_payload = Str(APP_NAME)]

\* activate as a handler that registered its service once for all would run it:
\* a later power-up only turns the radio on and advertises
BleActivateRegisteredOnce(b, h) ==
    IF b.is_active THEN b
    ELSE IF b.registered = 0
         THEN [_init_ble_services([b EXCEPT !.radio = TRUE], h)
                  EXCEPT !.advertising = TRUE, !.is_active = TRUE]
         ELSE [b EXCEPT !.radio = TRUE, !.advertising = TRUE, !.is_active = TRUE]

\* activate without the guard of line 68
BleActivateUnguarded(b, h) ==
    [_init_ble_services([b EXCEPT !.radio = TRUE], h)
        EXCEPT !.advertising = TRUE, !.is_active = TRUE]

\* activate (lines 66-73)
BleActivate(b, h) ==
    IF ~b.is_active
    THEN [_init_ble_services([b EXCEPT !.radio = TRUE], h)
             EXCEPT !.advertising = TRUE, !.is_active = TRUE]
    ELSE b

\* deactivate as a call that powers the radio off and leaves the flag
BleDeactivateRadioOnly(b) ==
    IF b.is_active
    THEN [b EXCEPT !.radio = FALSE, !.link = {}, !.advertising = FALSE,
                   !.connections = {}]
    ELSE b

\* deactivate without the clear() of line 79
BleDeactivateKeepingConnections(b) ==
    IF b.is_active
    THEN [b EXCEPT !.radio = FALSE, !.link = {}, !.advertising = FALSE,
                   !.is_active = FALSE]
    ELSE b

\* deactivate (lines 75-81); powering the radio off drops its links
BleDeactivate(b) ==
    IF b.is_active
    THEN [b EXCEPT !.radio = FALSE, !.link = {}, !.advertising = FALSE,
                   !.connections = {}, !.is_active = FALSE]
    ELSE b

\* The connect event without the eviction of lines 92-95
IrqConnectKeepingAll(b, conn_handle) ==
    [b EXCEPT !.forced = {},
              !.connections = @ \cup {conn_handle},
              !.irq_error = FALSE]

\* The connect event clearing the set without the gap_disconnect calls of line 94
IrqConnectWithoutDisconnect(b, conn_handle) ==
    [b EXCEPT !.forced = {},
              !.connections = {conn_handle},
              !.irq_error = FALSE]

\* _irq_handler, _IRQ_CENTRAL_CONNECT (lines 89-97)
IrqConnect(b, conn_handle) ==
    LET dropped == IF Cardinality(b.connections) >= 1 THEN b.connections ELSE {}
        kept == IF Cardinality(b.connections) >= 1 THEN {} ELSE b.connections
    IN [b EXCEPT !.forced = dropped,
                 !.connections = kept \cup {conn_handle},
                 !.irq_error = FALSE]

\* _irq_handler, _IRQ_CENTRAL_DISCONNECT (lines 99-103): set.remove raises KeyError
\* for a handle that is not in the set, and the handler ends there
IrqDisconnect(b, conn_handle) ==
    IF conn_handle \in b.connections
    THEN [b EXCEPT !.connections = @ \ {conn_handle},
                   !.advertising = TRUE,
                   !.irq_error = FALSE]
    ELSE [b EXCEPT !.irq_error = TRUE]

\* A choice between two cache entries that never falls back to the second key's
\* own sentence when the first is empty
OrFirstOnly(a, b) == a

\* `a or b` on two cache entries
Or(a, b) == IF Truthy(a) THEN a ELSE b

\* the list comprehension of line 122 on one entry of nmea_lines
ValidLine(x) == IF Truthy(x) /\ StartsWith(x.v, "$") THEN <<Strip(x.v)>> ELSE <<>>

\* The text _update_nmea_data builds from the raw cache (lines 115-132).
\* TextOf is lines 125-132 on valid_lines.  NmeaTextAltitudeFirst is the same text
\* with the two entries of nmea_lines in the other order.
TextOf(valid_lines) ==
    Join("\r\n", IF valid_lines = <<>> THEN Placeholders ELSE valid_lines)
NmeaTextAltitudeFirst(gps_raw) ==
    TextOf(ValidLine(Or(gps_raw["GNGGA"], gps_raw["GPGGA"]))
           \o ValidLine(Or(gps_raw["GNRMC"], gps_raw["GPRMC"])))
NmeaText(gps_raw) ==
    TextOf(ValidLine(Or(gps_raw["GNRMC"], gps_raw["GPRMC"]))
           \o ValidLine(Or(gps_raw["GNGGA"], gps_raw["GPGGA"])))

\* A refresh whose notify loop has no inner try: the first failure ends the
\* refresh in the outer except clause, with every handle left in the set
UpdateNmeaDataAbortingOnFailure(b, g, failing) ==
    IF ~b.is_active \/ ~Truthy(b.nmea_handle) THEN b
    ELSE IF ~b.radio THEN b
    ELSE [b EXCEPT !.value = Str(NmeaText(g.raw_nmea)),
                   !.refreshed_from = g.raw_nmea,
                   !.notify_failed = failing,
                   !.notified = IF failing = {} THEN b.connections ELSE {}]

\* _update_nmea_data (lines 109-142); `failing` are the connected handles whose
\* gatts_notify raises.  With the radio off gatts_write raises and the outer
\* except clause ends the refresh.
UpdateNmeaData(b, g, failing) ==
    IF ~b.is_active \/ ~Truthy(b.nmea_handle) THEN b
    ELSE IF ~b.radio THEN b
    ELSE [b EXCEPT !.value = Str(NmeaText(g.raw_nmea)),
                   !.refreshed_from = g.raw_nmea,
                   !.notify_failed = failing,
                   !.notified = b.connections \ failing,
                   !.connections = @ \ failing]

\* The period of run()'s push, in ms (line 149): the module constant
RunPeriodMs == UPDATE_INTERVAL * 1000

activate ==
    /\ ble.is_active \/ ble.registered < MaxActivations
    /\ \E h \in ValueHandles : ble' = BleActivate(ble, h)
    /\ UNCHANGED <<gps_data, uart_readline, update_interval, led, gps_call, pm, dev, last_pps_time, pps_call, main, refresh>>

deactivate ==
    /\ ble' = BleDeactivate(ble)
    /\ UNCHANGED <<gps_data, uart_readline, update_interval, led, gps_call, pm, dev, last_pps_time, pps_call, main, refresh>>

\* A central connects: the stack opens a link and delivers the event.
irq_central_connect ==
    /\ ble.radio
    /\ \E h \in Handles \ ble.link :
          /\ ble' = [IrqConnect(ble, h) EXCEPT !.link = @ \cup {h}, !.advertising = FALSE]
          /\ refresh' = [refresh EXCEPT !.admitted = IF refresh.pc = "idle" THEN @ ELSE {h}]
    /\ UNCHANGED <<gps_data, uart_readline, update_interval, led, gps_call, pm, dev, last_pps_time, pps_call, main>>

\* A link ends (the peer left, or gap_disconnect took effect) and the event is delivered.
irq_central_disconnect ==
    /\ \E h \in ble.link :
          /\ ble' = [IrqDisconnect(ble, h) EXCEPT !.link = @ \ {h}]
          /\ refresh' = [refresh EXCEPT !.admitted = @ \ {h}]
    /\ UNCHANGED <<gps_data, uart_readline, update_interval, led, gps_call, pm, dev, last_pps_time, pps_call, main>>

\* _update_nmea_data statement by statement, as run() executes it in the main
\* context while the radio's events are handled between its statements:
\*   pc          "idle" (no call in progress), "loop" (at the head of the for
\*               loop of line 136), "except" (in the handler of line 139)
\*   pending     the handles of the snapshot list(self._connections) still to notify
\*   conn_handle the loop variable whose notify raised
\*   caught      the last call ended in the outer except clause (line 141)
\*   admitted    the handle a connect event admitted while the call was in progress
RefreshInit ==
    [pc |-> "idle", pending |-> {}, conn_handle |-> None, caught |-> FALSE, admitted |-> {}]

\* lines 111-136: the guards, the text, gatts_write and the snapshot
refresh_begin ==
    /\ refresh.pc = "idle"
    /\ ble.is_active /\ Truthy(ble.nmea_handle) /\ ble.radio
    /\ ble' = [ble EXCEPT !.value = Str(NmeaText(gps_data.raw_nmea)),
                          !.refreshed_from = gps_data.raw_nmea,
                          !.notified = {}, !.notify_failed = {}]
    /\ refresh' = [pc |-> "loop", pending |-> ble.connections, conn_handle |-> None,
                   caught |-> FALSE, admitted |-> {}]
    /\ UNCHANGED <<gps_data, uart_readline, update_interval, led, gps_call,
                   last_pps_time, pps_call, pm, dev, main>>

\* lines 136-139: gatts_notify for the next handle of the snapshot; it raises
\* when the handle has no link and may raise when it has one
refresh_notify ==
    /\ refresh.pc = "loop"
    /\ \E h \in refresh.pending, raises \in BOOLEAN :
          /\ h \notin ble.link => raises
          /\ ble' = IF raises THEN [ble EXCEPT !.notify_failed = @ \cup {h}]
                              ELSE [ble EXCEPT !.notified = @ \cup {h}]
          /\ refresh' = [refresh EXCEPT !.pending = @ \ {h},
                                        !.pc = IF raises THEN "except" ELSE "loop",
                                        !.conn_handle = IF raises THEN Num(h, 1) ELSE @]
    /\ UNCHANGED <<gps_data, uart_readline, update_interval, led, gps_call,
                   last_pps_time, pps_call, pm, dev, main>>

\* line 140: self._connections.remove(conn_handle); KeyError for a handle that
\* has left the set goes to the outer except clause and ends the call
refresh_remove ==
    /\ refresh.pc = "except"
    /\ IF refresh.conn_handle.n \in ble.connections
       THEN /\ ble' = [ble EXCEPT !.connections = @ \ {refresh.conn_handle.n}]
            /\ refresh' = [refresh EXCEPT !.pc = "loop"]
       ELSE /\ ble' = ble
            /\ refresh' = [refresh EXCEPT !.pc = "idle", !.pending = {}, !.caught = TRUE]
    /\ UNCHANGED <<gps_data, uart_readline, update_interval, led, gps_call,
                   last_pps_time, pps_call, pm, dev, main>>

\* the for loop is exhausted and the call returns
refresh_end ==
    /\ refresh.pc = "loop" /\ refresh.pending = {}
    /\ refresh' = [refresh EXCEPT !.pc = "idle"]
    /\ UNCHANGED <<gps_data, uart_readline, update_interval, led, gps_call,
                   last_pps_time, pps_call, ble, pm, dev, main>>

\* A refresh: a client's read request (line 105-107) or a push of run() (line 150).
\* A notify to a handle whose link is gone raises; one to a live link may.
update_nmea_data ==
    /\ \E failing \in SUBSET ble.connections :
          /\ ble.connections \ ble.link \subseteq failing
          /\ ble' = UpdateNmeaData(ble, gps_data, failing)
    /\ UNCHANGED <<gps_data, uart_readline, update_interval, led, gps_call, pm, dev, last_pps_time, pps_call, main, refresh>>

(***************************************************************************)
(* PowerManager (power_management.py, and its revision without deep sleep  *)
(* power_management_v2.py), DisplayHandler.toggle_display_power and the    *)
(* screen timer of boot_v2.py.                                             *)
(*                                                                         *)
(* A one-shot Timer is None while it is not armed and otherwise the time   *)
(* left until its callback runs, in ms.  The operators work on the record  *)
(* S = [pm, dev, ui, ble]: the controller, the devices it drives, the      *)
(* parser's update_interval and the notifier.                              *)
(***************************************************************************)
\* The step of the model's clock, in ms.
TickMs == 10000

\* GPSHandler defines no power_off (gps_handler_v2.py lines 76-79 are commented out)
GpsHasPowerOff == FALSE
\* DisplayHandler constructs the controller without a notifier (ble=None)
PmHasBle == FALSE

\* PowerManager.__init__ (power_management.py lines 10-29), on a setting
\* screen_timeout_ms of 30000
PmInit ==
    [state |-> "active", idle_timeout_ms |-> 30000, deepsleep_timeout_ms |-> 480000,
     inactivity_timer |-> Num(30000, 1), prolonged_inactivity_timer |-> None]

\* PowerManager.__init__ (power_management_v2.py lines 6-33)
Pm2Init ==
    [state |-> "active", idle_timeout_ms |-> 30000,
     active_gps_interval |-> 1000, idle_gps_interval |-> 30000,
     active_ble_interval |-> 1000, idle_ble_interval |-> 30000,
     inactivity_timer |-> Num(30000, 1)]

\* The devices after boot (boot_v2.py main, lines 106-128):
\*   display_on   the display's power
\*   disp_timer   the one-shot Timer(2) of setup_screen_timeout
\*   wake_armed   esp32.wake_on_ext0 was called
\*   suspended    deepsleep() was entered
\*   crashed      the last timer callback or button handler ended in an exception
\*   since_interaction  the time since the last handle_user_interaction call (or
\*                since boot), in ms, counted up to idle_timeout_ms
\*   idle_entered_at    since_interaction at the last change from active to idle
\*   in_call      where a handle_user_interaction call that runs statement by
\*                statement stands: "none" before the first call, the branch its
\*                state test chose, a line number inside that branch, or "returned"
DevInit ==
    [display_on |-> TRUE, disp_timer |-> Num(30000, 1), wake_armed |-> FALSE,
     suspended |-> FALSE, crashed |-> FALSE,
     since_interaction |-> 0, idle_entered_at |-> None, in_call |-> "none"]

\* reset_inactivity_timer (lines 35-43; v2 lines 39-48): deinit, then init
reset_inactivity_timer(p) == [p EXCEPT !.inactivity_timer = Num(p.idle_timeout_ms, 1)]

\* reset_prolonged_inactivity_timer (lines 46-56)
reset_prolonged_inactivity_timer(p) ==
    [p EXCEPT !.prolonged_inactivity_timer = Num(p.deepsleep_timeout_ms, 1)]

\* enter_idle_mode (lines 58-75)
enter_idle_mode(S) ==
    IF S.pm.state # "active" THEN S
    ELSE [S EXCEPT !.pm = reset_prolonged_inactivity_timer([S.pm EXCEPT !.state = "idle"]),
                   !.dev.display_on = FALSE,
                   !.ui = set_update_interval(30000)]

\* exit_idle_mode without lines 83-85: the prolonged inactivity timer stays armed
exit_idle_mode_timer_kept(S) ==
    [S EXCEPT !.pm = reset_inactivity_timer([S.pm EXCEPT !.state = "active"]),
              !.dev.display_on = TRUE,
              !.ui = set_update_interval(1000)]

\* exit_idle_mode (lines 77-89)
exit_idle_mode(S) ==
    [S EXCEPT !.pm = [reset_inactivity_timer([S.pm EXCEPT !.state = "active"])
                         EXCEPT !.prolonged_inactivity_timer = None],
              !.dev.display_on = TRUE,
              !.ui = set_update_interval(1000)]

\* enter_deep_sleep (lines 91-102): gps.power_off() raises AttributeError when the
\* GPS handler has no such method, and the callback ends there
enter_deep_sleep(S) ==
    LET S1 == [S EXCEPT !.pm.state = "deep_sleep", !.dev.display_on = FALSE] IN
    IF ~GpsHasPowerOff THEN [S1 EXCEPT !.dev.crashed = TRUE]
    ELSE [S1 EXCEPT !.ble.radio = IF PmHasBle THEN FALSE ELSE @,
                    !.ble.link = IF PmHasBle THEN {} ELSE @,
                    !.ble.advertising = IF PmHasBle THEN FALSE ELSE @,
                    !.dev.wake_armed = TRUE,
                    !.dev.suspended = TRUE]

\* wake_from_deep_sleep (lines 104-115)
wake_from_deep_sleep(S) ==
    [S EXCEPT !.pm = reset_inactivity_timer([S.pm EXCEPT !.state = "active"]),
              !.dev.display_on = TRUE,
              !.ble.radio = IF PmHasBle THEN TRUE ELSE @,
              !.ble.advertising = IF PmHasBle THEN TRUE ELSE @]

\* handle_user_interaction (lines 117-124)
handle_user_interaction(S) ==
    IF S.pm.state = "idle" THEN exit_idle_mode(S)
    ELSE IF S.pm.state = "deep_sleep" THEN wake_from_deep_sleep(S)
    ELSE [S EXCEPT !.pm = reset_inactivity_timer(S.pm)]

\* DisplayHandler.toggle_display_power (display_handler.py lines 349-360)
toggle_display_power(S) ==
    IF S.pm.state = "deep_sleep" THEN wake_from_deep_sleep(S) ELSE enter_deep_sleep(S)

\* enter_idle_mode of power_management_v2.py (lines 50-71): the notifier's cadence
\* is written to an attribute of the notifier object
enter_idle_mode_v2(S) ==
    IF S.pm.state # "active" THEN S
    ELSE [S EXCEPT !.pm.state = "idle",
                   !.dev.display_on = FALSE,
                   !.ui = set_update_interval(S.pm.idle_gps_interval),
                   !.ble.attr_UPDATE_INTERVAL = Num(S.pm.idle_ble_interval, 1)]

\* exit_idle_mode of power_management_v2.py (lines 73-89)
exit_idle_mode_v2(S) ==
    [S EXCEPT !.pm = reset_inactivity_timer([S.pm EXCEPT !.state = "active"]),
              !.dev.display_on = TRUE,
              !.ui = set_update_interval(S.pm.active_gps_interval),
              !.ble.attr_UPDATE_INTERVAL = Num(S.pm.active_ble_interval, 1)]

\* handle_user_interaction of power_management_v2.py (lines 91-97)
handle_user_interaction_v2(S) ==
    IF S.pm.state = "idle" THEN exit_idle_mode_v2(S)
    ELSE [S EXCEPT !.pm = reset_inactivity_timer(S.pm)]

\* set_idle_timeout of power_management_v2.py (lines 99-102)
set_idle_timeout(S, timeout_ms) ==
    [S EXCEPT !.pm = reset_inactivity_timer([S.pm EXCEPT !.idle_timeout_ms = Max(timeout_ms, 5000)])]

\* set_ble_gps_freq of power_management_v2.py (lines 104-116)
set_ble_gps_freq(S, active_ble, idle_ble, active_gps, idle_gps) ==
    [S EXCEPT !.pm.active_ble_interval = active_ble,
              !.pm.idle_ble_interval = idle_ble,
              !.pm.active_gps_interval = active_gps,
              !.pm.idle_gps_interval = idle_gps,
              !.ui = set_update_interval(IF S.pm.state = "active" THEN active_gps ELSE idle_gps),
              !.ble.attr_UPDATE_INTERVAL =
                  Num(IF S.pm.state = "active" THEN active_ble ELSE idle_ble, 1)]

(***************************************************************************)
(* Lines the UART delivers (bytes, as read by uart.readline)                *)
(***************************************************************************)
RmcLines ==
    {"$GPRMC,123519,A,4807.038,N,01131.000,E,022.4,084.4,230394\r\n",
     "$GNRMC,010203,A,3345.500,S,07030.250,W,,,010125\r\n",
     "$GPRMC,235959,V,,,,,,,311299\r\n",
     "$GNRMC,101010,,5130.000,N,00007.500,W,3.5,90.0,050505\r\n",
     "$GPRMC,111111,A,1000.000,N,02000.000,E,x1,5.0,020202\r\n",
     "$GNRMC,222222,A,1230.000,N,04500.000,E\r\n",
     "$GPRMC,222222,A,1230.000,N,04500.000\r\n"}
GgaLines ==
    {"$GPGGA,123519,4807.038,N,01131.000,E,1,08,0.9,545.4,M\r\n",
     "$GNGGA,010203,,,,,0,,,,\r\n",
     "$GPGGA,1,2,N,3,E,1,8.5,1.2,10.0,M\r\n",
     "$GNGGA,123519,4807.038,N,1,08,0.9,545.4,M\r\n"}
GsvLines ==
    {"$GPGSV,1,1,02,01,40,083,46,02,17,308,41\r\n",
     "$GNGSV,1,1,x\r\n",
     "$GNGSV,1,1,03,05,4x,083,46,,17,308,41,07,,120,33*7A\r\n",
     "$GPGSV,1,1\r\n"}
OtherLines ==
    {"$GPVTG,054.7,T\r\n",
     " ^$GPGLL,1^\r\n",
     "$OTHER,1\r\n",
     "noise\r\n"}
Lines == RmcLines \cup GgaLines \cup GsvLines \cup OtherLines

\* How many read_gps calls a behaviour of the model makes.
MaxReads == 3

\* The record of the most recent read_gps call: the bytes read, the snapshot before
\* the call, how the call ended, how long it waited, and how many calls were made.
GpsCallInit == [line |-> "", pre |-> GpsDataInit, out |-> "none", slept |-> 0, n |-> 0]

\* How many times a behaviour of the model runs pps_handler.
MaxPulses == 3

\* The time between two runs of pps_handler, in microseconds: a second, a little
\* less, and half the period of the tick counter
PulseGaps == {1000000, 999990, TICKS_PERIOD \div 2}

\* The record of the pps_handler calls: the tick counter at the last call (at
\* boot before any), the pin level the last call read, the number of calls, and
\* the tick counts of the calls that read the pin high (the pulses), in order.
PpsCallInit(ticks) == [ticks |-> ticks, pin_value |-> 0, n |-> 0, pulses |-> <<>>]

GpsInit ==
    /\ gps_data = GpsDataInit
    /\ uart_readline = FALSE
    /\ update_interval = 1000
    /\ led = <<0, 0>>
    /\ gps_call = GpsCallInit
    /\ last_pps_time = None
    /\ pps_call = PpsCallInit(0)

\* init_gps: the UART is opened, or its constructor raises and the handler stays
\* without a readline.
init_gps ==
    /\ ~uart_readline
    /\ \E opened \in BOOLEAN : uart_readline' = opened
    /\ UNCHANGED <<gps_data, update_interval, led, gps_call, ble, pm, dev, last_pps_time, pps_call, main, refresh>>

\* The PPS pin's interrupt (registered by init_gps, line 72) runs pps_handler.
PpsReturns(h, current_time, pin_value) ==
    /\ gps_data' = h.g
    /\ last_pps_time' = h.last
    /\ pps_call' = [ticks |-> current_time, pin_value |-> pin_value, n |-> pps_call.n + 1,
                    pulses |-> IF pin_value = 1 THEN Append(pps_call.pulses, current_time)
                               ELSE pps_call.pulses]
pps_irq ==
    /\ uart_readline
    /\ pps_call.n < MaxPulses
    /\ \E gap \in PulseGaps, pin_value \in {0, 1} :
          PpsReturns(PpsHandler(gps_data, last_pps_time,
                                (pps_call.ticks + gap) % TICKS_PERIOD, pin_value),
                     (pps_call.ticks + gap) % TICKS_PERIOD, pin_value)
    /\ UNCHANGED <<uart_readline, update_interval, led, gps_call, ble, pm, dev, main, refresh>>

\* What a read_gps call leaves: `r` is the outcome of its try block.
Returns(line, r) ==
    /\ gps_data' = r.g
    /\ led' = r.led
    /\ gps_call' = [line |-> line, pre |-> gps_data, out |-> r.out,
                    slept |-> IF r.out \in {"done", "caught"}
                              THEN CadenceWait(update_interval) ELSE 0,
                    n |-> gps_call.n + 1]

\* read_gps (lines 116-218), with `line` what uart.readline() returns ("" for
\* nothing read).  The returns of lines 117-124, before the try block, are the
\* outcome "not_read".
read_gps(line) ==
    /\ gps_call.n < MaxReads
    /\ IF ~uart_readline \/ line = ""
       THEN Returns(line, R(gps_data, led, "not_read"))
       ELSE Returns(line, ReadLine(gps_data, led, line))
    /\ UNCHANGED <<uart_readline, update_interval, ble, pm, dev, last_pps_time, pps_call, main, refresh>>

\* Positioning sentences with a valid-fix flag and every combination of these
\* latitude and longitude tokens and hemispheres: degrees and minutes of four,
\* three and five digits before the point, and tokens with two, one and no digit
\* before it, without a point, with two points
PositionLines ==
    {"$GPRMC,123519,A," \o lat \o "," \o ns \o "," \o lon \o "," \o ew
         \o ",022.4,084.4,230394\r\n" :
       lat \in {"4807.038", "807.5", "07.038", "7.5", ".5", "48", "48.07.03"},
       ns \in {"N", "S"},
       lon \in {"01131.000", "1.25", "12345", "11.31.0"},
       ew \in {"E", "W"}}

\* The first read_gps call of a run, on one of those sentences
read_position ==
    /\ gps_call.n = 0
    /\ \E line \in PositionLines : Returns(line, ReadLine(gps_data, led, line))
    /\ UNCHANGED <<uart_readline, update_interval, last_pps_time, pps_call, ble, pm, dev, main, refresh>>

\* Positioning sentences with a valid-fix flag whose tokens all convert to a
\* value: positions on and next to the equator and the prime meridian, and one
\* away from both
EquatorLines ==
    {"$GNRMC,123519,A," \o lat \o "," \o ns \o "," \o lon \o "," \o ew
         \o ",000.5,054.7,191124\r\n" :
       lat \in {"0000.000", "000.0", "0000.600", "4807.038"},
       ns \in {"N", "S"},
       lon \in {"00000.000", "0000.00", "00030.000", "01131.000"},
       ew \in {"E", "W"}}

\* The first read_gps call of a run, on one of those sentences
read_equator ==
    /\ gps_call.n = 0
    /\ \E line \in EquatorLines : Returns(line, ReadLine(gps_data, led, line))
    /\ UNCHANGED <<uart_readline, update_interval, last_pps_time, pps_call, ble, pm, dev, main, refresh>>

GpsNext ==
    \/ init_gps
    \/ \E line \in Lines \cup {""} : read_gps(line)

(***************************************************************************)
(* Timers, buttons and the clock                                           *)
(***************************************************************************)
Sys == [pm |-> pm, dev |-> [dev EXCEPT !.crashed = FALSE], ui |-> update_interval, ble |-> ble]

\* The state a handler leaves, with the time of a change from active to idle recorded.
Becomes(T) ==
    /\ pm' = T.pm
    /\ update_interval' = T.ui
    /\ ble' = T.ble
    /\ dev' = IF pm.state = "active" /\ T.pm.state = "idle"
              THEN [T.dev EXCEPT !.idle_entered_at = Num(dev.since_interaction, 1)]
              ELSE T.dev
    /\ UNCHANGED <<gps_data, uart_readline, led, gps_call, last_pps_time, pps_call, main, refresh>>

Armed(t) == t # None
Due(t) == t = Num(0, 1)
Later(t) == IF Armed(t) THEN Num(Max(t.n - TickMs, 0), 1) ELSE t
HasProlonged(p) == "prolonged_inactivity_timer" \in DOMAIN p

\* TickMs pass and no timer is due.
tick ==
    /\ ~dev.suspended
    /\ ~Due(pm.inactivity_timer) /\ ~Due(dev.disp_timer)
    /\ HasProlonged(pm) => ~Due(pm.prolonged_inactivity_timer)
    /\ Armed(pm.inactivity_timer) \/ Armed(dev.disp_timer)
          \/ dev.since_interaction < pm.idle_timeout_ms
          \/ (HasProlonged(pm) /\ Armed(pm.prolonged_inactivity_timer))
    /\ pm' = IF HasProlonged(pm)
             THEN [pm EXCEPT !.inactivity_timer = Later(@),
                             !.prolonged_inactivity_timer = Later(@)]
             ELSE [pm EXCEPT !.inactivity_timer = Later(@)]
    /\ dev' = [dev EXCEPT !.disp_timer = Later(@),
                          !.since_interaction = Min(@ + TickMs, pm.idle_timeout_ms)]
    /\ UNCHANGED <<gps_data, uart_readline, update_interval, led, gps_call, ble, last_pps_time, pps_call, main, refresh>>

\* The inactivity timer's callback (power_management.py line 42)
inactivity_timer_fires ==
    /\ ~dev.suspended /\ Due(pm.inactivity_timer)
    /\ Becomes(enter_idle_mode([Sys EXCEPT !.pm.inactivity_timer = None]))

\* The prolonged inactivity timer's callback (line 55)
prolonged_inactivity_timer_fires ==
    /\ ~dev.suspended /\ Due(pm.prolonged_inactivity_timer)
    /\ Becomes(enter_deep_sleep([Sys EXCEPT !.pm.prolonged_inactivity_timer = None]))

\* The screen timer's callback (boot_v2.py line 101)
disp_timer_fires ==
    /\ ~dev.suspended /\ Due(dev.disp_timer)
    /\ Becomes(enter_idle_mode([Sys EXCEPT !.dev.disp_timer = None]))

\* A button or touch event reaches DisplayHandler.handle_user_interaction
user_interaction ==
    /\ ~dev.suspended
    /\ Becomes(handle_user_interaction([Sys EXCEPT !.dev.since_interaction = 0]))

\* handle_user_interaction run statement by statement, so that a timer's callback
\* can run between two of its statements.  The state test of lines 119-123
\* chooses the branch:
InteractionBranch(p) ==
    IF p.state = "idle" THEN "exit_idle_mode"
    ELSE IF p.state = "deep_sleep" THEN "wake_from_deep_sleep"
    ELSE "reset_inactivity_timer"

\* and the chosen branch runs: exit_idle_mode as lines 79-81, line 82 and lines
\* 83-85, wake_from_deep_sleep as lines 106-108 and line 114, the else branch as
\* the one call of line 124
HandlerStep(S) ==
    CASE S.dev.in_call = "exit_idle_mode" ->
            [S EXCEPT !.pm.state = "active",
                      !.dev.display_on = TRUE,
                      !.ui = set_update_interval(1000),
                      !.dev.in_call = "line 82"]
      [] S.dev.in_call = "line 82" ->
            [S EXCEPT !.pm = reset_inactivity_timer(S.pm), !.dev.in_call = "line 83"]
      [] S.dev.in_call = "line 83" ->
            [S EXCEPT !.pm.prolonged_inactivity_timer = None, !.dev.in_call = "returned"]
      [] S.dev.in_call = "wake_from_deep_sleep" ->
            [S EXCEPT !.pm.state = "active",
                      !.dev.display_on = TRUE,
                      !.ble.radio = IF PmHasBle THEN TRUE ELSE @,
                      !.ble.advertising = IF PmHasBle THEN TRUE ELSE @,
                      !.dev.in_call = "line 114"]
      [] S.dev.in_call = "line 114" ->
            [S EXCEPT !.pm = reset_inactivity_timer(S.pm), !.dev.in_call = "returned"]
      [] S.dev.in_call = "reset_inactivity_timer" ->
            [S EXCEPT !.pm = reset_inactivity_timer(S.pm), !.dev.in_call = "returned"]

\* A button or touch event starts a call: lines 118-123
interaction_check ==
    /\ ~dev.suspended
    /\ dev.in_call \in {"none", "returned"}
    /\ Becomes([Sys EXCEPT !.dev.since_interaction = 0,
                           !.dev.in_call = InteractionBranch(pm)])

\* The running call executes its next statements
interaction_step ==
    /\ ~dev.suspended
    /\ dev.in_call \notin {"none", "returned"}
    /\ Becomes(HandlerStep(Sys))

\* The display power button
power_button ==
    /\ ~dev.suspended
    /\ Becomes(toggle_display_power(Sys))

\* The same events on the controller of power_management_v2.py
inactivity_timer_fires_v2 ==
    /\ Due(pm.inactivity_timer)
    /\ Becomes(enter_idle_mode_v2([Sys EXCEPT !.pm.inactivity_timer = None]))

disp_timer_fires_v2 ==
    /\ Due(dev.disp_timer)
    /\ Becomes(enter_idle_mode_v2([Sys EXCEPT !.dev.disp_timer = None]))

user_interaction_v2 ==
    /\ Becomes(handle_user_interaction_v2([Sys EXCEPT !.dev.since_interaction = 0]))

\* Timeouts and cadences a caller of the v2 controller's setters passes, in ms
TimeoutChoices == {1000, 20000}
FreqChoices == {<<1000, 30000, 1000, 30000>>, <<2000, 60000, 500, 10000>>}

set_idle_timeout_v2 ==
    /\ \E timeout_ms \in TimeoutChoices : Becomes(set_idle_timeout(Sys, timeout_ms))

set_ble_gps_freq_v2 ==
    /\ \E f \in FreqChoices : Becomes(set_ble_gps_freq(Sys, f[1], f[2], f[3], f[4]))

(***************************************************************************)
(* boot_v2.main: the loop and its top-level exception handler              *)
(***************************************************************************)
\* str.lower() on the letters the descriptions below use
LowerCase ==
    "A" :> "a" @@ "B" :> "b" @@ "C" :> "c" @@ "D" :> "d" @@ "E" :> "e" @@ "L" :> "l" @@
    "O" :> "o" @@ "T" :> "t" @@ "U" :> "u" @@ "H" :> "h"
RECURSIVE Lower(_)
Lower(s) ==
    IF s = "" THEN ""
    ELSE (IF CharAt(s, 0) \in DOMAIN LowerCase THEN LowerCase[CharAt(s, 0)] ELSE CharAt(s, 0))
         \o Lower(Slice(s, 1, Len(s)))

\* `sub in s`
Contains(s, sub) ==
    \E i \in 0..(Len(s) - Len(sub)) : Slice(s, i, i + Len(sub)) = sub

\* str(e) of the exceptions that surface in the loop
Faults == {"Bluetooth stack error", "BLE not active", "ADC read failed", "list index out of range"}

\* How many exceptions a behaviour of the model lets surface in the loop.
MaxFaults == 2

\* line 133
sample_interval == 20

\* Lines the UART delivers to the loop's read_gps call
MainLines == {"", "$GNRMC,010203,A,3345.500,S,07030.250,W,,,010125\r\n"}

\* main() when it enters its loop (lines 130-134):
\*   alive        the loop is running (no exception has left main)
\*   sample_count the local of line 132
\*   reactivate_timers  the one-shot timers of line 166 that are armed
\*   faults       the exceptions that reached the except clause so far
\*   last_exc     str(e) of the exception the last iteration raised, None for none
MainInit ==
    [alive |-> TRUE, sample_count |-> 0, reactivate_timers |-> 0, faults |-> 0,
     last_exc |-> None]

\* One pass of the try block without an exception (lines 138-157); `reads` is
\* display_handler.current_mode in [0, 1, 2], `line` what the UART delivers.
loop_iteration ==
    /\ main.alive
    /\ \E reads \in BOOLEAN :
          IF reads
          THEN /\ gps_call.n < MaxReads
               /\ \E line \in MainLines :
                     IF ~uart_readline \/ line = ""
                     THEN Returns(line, R(gps_data, led, "not_read"))
                     ELSE Returns(line, ReadLine(gps_data, led, line))
          ELSE UNCHANGED <<gps_data, led, gps_call, refresh>>
    /\ main' = [main EXCEPT !.sample_count = IF @ + 1 >= sample_interval THEN 0 ELSE @ + 1,
                            !.last_exc = None]
    /\ UNCHANGED <<uart_readline, update_interval, last_pps_time, pps_call, ble, pm, dev, refresh>>

\* The except clause (lines 159-174) on str(e).lower(); `timer_made` is whether
\* the constructor call Timer() of line 166 returns a timer: machine.Timer takes
\* its id as a required argument on the ESP32 port, where the call raises
\* TypeError inside the handler and the exception leaves main().
HandleException(m, b, description, timer_made) ==
    IF Contains(description, "bluetooth")
    THEN [main |-> IF timer_made
                   THEN [m EXCEPT !.reactivate_timers = @ + 1]
                   ELSE [m EXCEPT !.alive = FALSE],
          ble |-> BleDeactivate(b)]
    ELSE IF Contains(description, "adc")
    THEN [main |-> [m EXCEPT !.sample_count = 0], ble |-> b]
    ELSE [main |-> m, ble |-> b]

\* What an iteration that raised leaves
Recovered(h) ==
    /\ main' = h.main
    /\ ble' = h.ble

\* A pass of the try block that raises at its first call (line 141) or in the
\* battery sampling (lines 151-152)
loop_exception ==
    /\ main.alive
    /\ main.faults < MaxFaults
    /\ \E e \in Faults, timer_made \in BOOLEAN :
          Recovered(HandleException([main EXCEPT !.faults = @ + 1, !.last_exc = Str(e)],
                                    ble, Lower(e), timer_made))
    /\ UNCHANGED <<gps_data, uart_readline, update_interval, led, gps_call,
                   last_pps_time, pps_call, pm, dev, refresh>>

\* The callback of a one-shot timer of line 166 (line 169)
reactivate_timer_fires ==
    /\ main.reactivate_timers > 0
    /\ main' = [main EXCEPT !.reactivate_timers = @ - 1]
    /\ \E h \in ValueHandles : ble' = BleActivate(ble, h)
    /\ UNCHANGED <<gps_data, uart_readline, update_interval, led, gps_call,
                   last_pps_time, pps_call, pm, dev, refresh>>

(***************************************************************************)
(* Specifications                                                          *)
(***************************************************************************)
\* Lines that fill the raw cache read by the notifier
CacheLines ==
    {"$GPRMC,123519,A,4807.038,N,01131.000,E,022.4,084.4,230394\r\n",
     "$GNRMC,010203,A,3345.500,S,07030.250,W,,,010125\r\n",
     "$GPGGA,123519,4807.038,N,01131.000,E,1,08,0.9,545.4,M\r\n",
     "$GNGGA,010203,,,,,0,,,,\r\n",
     "$GPVTG,054.7,T\r\n"}

Init == GpsInit /\ ble = BleInit /\ pm = PmInit /\ dev = DevInit /\ main = MainInit /\ refresh = RefreshInit

\* The notifier and its radio events
Next ==
    \/ activate
    \/ deactivate
    \/ irq_central_connect
    \/ irq_central_disconnect
    \/ update_nmea_data

Spec == Init /\ [][Next]_vars

\* The notifier's refresh and the parser that feeds its cache
NotifyNext ==
    \/ activate
    \/ deactivate
    \/ update_nmea_data
    \/ init_gps
    \/ \E line \in CacheLines : read_gps(line)

SpecNotify == Init /\ [][NotifyNext]_vars

\* The parser alone, on every line of Lines
SpecGps == Init /\ [][GpsNext]_vars

\* The pulse timing capture: the tick counter at boot is anywhere on its ring, here
\* at 0 or one second before it wraps
InitPps ==
    /\ gps_data = GpsDataInit /\ uart_readline = FALSE /\ update_interval = 1000
    /\ led = <<0, 0>> /\ gps_call = GpsCallInit /\ last_pps_time = None
    /\ pps_call \in {PpsCallInit(0), PpsCallInit(TICKS_PERIOD - 1000000)}
    /\ ble = BleInit /\ pm = PmInit /\ dev = DevInit /\ main = MainInit /\ refresh = RefreshInit

PpsNext ==
    \/ init_gps
    \/ pps_irq

SpecPps == InitPps /\ [][PpsNext]_vars

\* The controller of power_management.py with the timers of boot_v2.py
PowerNext ==
    \/ tick
    \/ inactivity_timer_fires
    \/ prolonged_inactivity_timer_fires
    \/ disp_timer_fires
    \/ user_interaction
    \/ power_button

\* The notifier as boot_v2.initialize_handlers leaves it: activated (line 33)
BleBooted == BleActivate(BleInit, 1)

\* The state boot_v2.main leaves before its loop, with the controller DisplayHandler builds
InitPower == GpsInit /\ ble = BleBooted /\ pm = PmInit /\ dev = DevInit /\ main = MainInit /\ refresh = RefreshInit

SpecPower == InitPower /\ [][PowerNext]_vars

\* The controller of power_management_v2.py
InitV2 == GpsInit /\ ble = BleBooted /\ pm = Pm2Init /\ dev = DevInit /\ main = MainInit /\ refresh = RefreshInit

PowerNextV2 ==
    \/ tick
    \/ inactivity_timer_fires_v2
    \/ disp_timer_fires_v2
    \/ user_interaction_v2
    \/ set_idle_timeout_v2
    \/ set_ble_gps_freq_v2

SpecPowerV2 == InitV2 /\ [][PowerNextV2]_vars

\* The clock's step is long against the run time of a handler: it is taken
\* between calls only
time_passes ==
    /\ dev.in_call \in {"none", "returned"}
    /\ tick

\* A user interaction whose handler the timers' callbacks interrupt
TouchNext ==
    \/ time_passes
    \/ inactivity_timer_fires
    \/ prolonged_inactivity_timer_fires
    \/ disp_timer_fires
    \/ interaction_check
    \/ interaction_step

SpecTouch == InitPower /\ [][TouchNext]_vars

\* The conversion of the position tokens, over a snapshot that is new or holds
\* the position of an earlier sentence
InitConv ==
    /\ gps_data \in {GpsDataInit,
                      ReadLine(GpsDataInit, <<0, 0>>,
                               "$GNRMC,010203,A,3345.500,S,07030.250,W,,,010125\r\n").g}
    /\ uart_readline = TRUE /\ update_interval = 1000
    /\ led = <<0, 0>> /\ gps_call = GpsCallInit /\ last_pps_time = None
    /\ pps_call = PpsCallInit(0)
    /\ ble = BleInit /\ pm = PmInit /\ dev = DevInit /\ main = MainInit /\ refresh = RefreshInit

SpecConv == InitConv /\ [][read_position]_vars

\* Positions on the equator and the prime meridian, over the same snapshots
SpecEquator == InitConv /\ [][read_equator]_vars

\* main() in its loop, on the device as boot leaves it (notifier activated, UART
\* opened)
InitMain ==
    /\ gps_data = GpsDataInit /\ uart_readline = TRUE /\ update_interval = 1000
    /\ led = <<0, 0>> /\ gps_call = GpsCallInit /\ last_pps_time = None
    /\ pps_call = PpsCallInit(0)
    /\ ble = BleBooted /\ pm = PmInit /\ dev = DevInit /\ main = MainInit /\ refresh = RefreshInit

\* The loop, the exceptions that surface in it and the recovery timers
MainNext ==
    \/ loop_iteration
    \/ loop_exception
    \/ reactivate_timer_fires

SpecMain == InitMain /\ [][MainNext]_vars

\* The loop with the radio's events; the loop runs for ever (while True), a
\* client's connect, disconnect and read request come when the client sends them
LoopNext ==
    \/ loop_iteration
    \/ irq_central_connect
    \/ irq_central_disconnect
    \/ update_nmea_data

SpecLoop == InitMain /\ [][LoopNext]_vars /\ WF_vars(loop_iteration)

\* The notifier's life: activate and deactivate calls, the power transitions the
\* buttons cause (enter_deep_sleep, wake_from_deep_sleep) and the loop's recovery
LifeNext ==
    \/ activate
    \/ deactivate
    \/ power_button
    \/ user_interaction
    \/ loop_exception
    \/ reactivate_timer_fires

SpecLife == InitPower /\ [][LifeNext]_vars

\* A refresh in the main context and the radio's events between its statements
IrqNext ==
    \/ refresh_begin
    \/ refresh_notify
    \/ refresh_remove
    \/ refresh_end
    \/ irq_central_connect
    \/ irq_central_disconnect

SpecIrq == InitMain /\ [][IrqNext]_vars

(***************************************************************************)
(* Properties                                                              *)
(***************************************************************************)
\* The parsed fields of the snapshot, by the sentence class that writes them
RmcFields == {"fix", "lat", "lon", "utc_time", "utc_date", "speed_knots", "course"}
GgaFields == {"alt", "sats", "hdop"}
GsvFields == {"satellites", "satellites_in_view"}
ParsedFields == RmcFields \cup GgaFields \cup {"satellites"}
SameOn(fields, g, h) == \A f \in fields : g[f] = h[f]

\* The class of the line the last read_gps call read, and its number of fields
LastDecoded == Strip(DecodeAsciiIgnore(gps_call.line))
LastIsRMC == StartsWith(LastDecoded, "$GPRMC") \/ StartsWith(LastDecoded, "$GNRMC")
LastIsGGA == StartsWith(LastDecoded, "$GPGGA") \/ StartsWith(LastDecoded, "$GNGGA")
LastIsGSV == StartsWith(LastDecoded, "$GPGSV") \/ StartsWith(LastDecoded, "$GNGSV")
LastFieldCount == Len(Split(LastDecoded, ","))

\* The text of the two placeholder sentences, and the cache keys a refresh reads
PlaceholderText == Placeholders[1] \o "\r\n" \o Placeholders[2]
FourKeys == {"GNRMC", "GPRMC", "GNGGA", "GPGGA"}

\* C1: after any sequence of fully processed central-connect and
\* central-disconnect events, _connections holds at most one handle.
C1_AtMostOneConnection == Cardinality(ble.connections) <= 1

\* A connect event arrived while a handle was held: the old one was dropped.
C1_Witness == ble.forced # {} /\ Cardinality(ble.connections) = 1

C3_PlaceholdersIffNoSentence ==
    ble.refreshed_from # None =>
        /\ (ble.value = Str(PlaceholderText))
               <=> (\A k \in FourKeys : ble.refreshed_from[k] = None)
        /\ ble.refreshed_from = GpsDataInit.raw_nmea => ble.value = Str(PlaceholderText)

\* A refresh ran on the cache of a system that has ingested nothing.
C3_Witness ==
    /\ ble.is_active
    /\ ble.refreshed_from = GpsDataInit.raw_nmea
    /\ ble.value = Str(PlaceholderText)

\* C4: when the inactivity timer elapses in state active, the state becomes idle,
\* the parser's interval is the configured idle interval, the period run() uses
\* for its push is the configured idle interval, the display is off and the
\* deep-sleep timer is armed.
C4_IdleEntryLowersCadences ==
    [][(pm.state = "active" /\ inactivity_timer_fires_v2) =>
          /\ pm'.state = "idle"
          /\ update_interval' = pm'.idle_gps_interval
          /\ RunPeriodMs = pm'.idle_ble_interval
          /\ ~dev'.display_on
          /\ HasProlonged(pm')
          /\ Armed(pm'.prolonged_inactivity_timer)]_vars

C6_IdleOnlyAfterFullTimeout ==
    dev.idle_entered_at # None => dev.idle_entered_at.n >= pm.idle_timeout_ms

\* C7: a line whose processing ends in a decode or format error leaves every
\* parsed field of the snapshot at its value from before the call.
C7_ErrorLeavesParsedFields ==
    gps_call.out = "caught" => SameOn(ParsedFields, gps_data, gps_call.pre)

\* C8: a positioning, altitude or satellite-detail sentence with fewer fields than
\* its branch reads (RMC data[8], GGA data[9], GSV data[3]) leaves the parsed
\* fields of its class unchanged.
C8_ShortSentenceLeavesClassFields ==
    /\ (LastIsRMC /\ LastFieldCount < 9) => SameOn(RmcFields, gps_data, gps_call.pre)
    /\ (LastIsGGA /\ LastFieldCount < 10) => SameOn(GgaFields, gps_data, gps_call.pre)
    /\ (LastIsGSV /\ LastFieldCount < 4) => SameOn(GsvFields, gps_data, gps_call.pre)

\* C9: a GGA sentence leaves fix, lat, lon, utc_time, utc_date, speed_knots and
\* course unchanged, and an RMC sentence leaves alt, sats and hdop unchanged.
C9_DisjointFieldSets ==
    /\ LastIsGGA => SameOn(RmcFields, gps_data, gps_call.pre)
    /\ LastIsRMC => SameOn(GgaFields, gps_data, gps_call.pre)

\* A GGA sentence was parsed over a snapshot that held a valid fix and a position,
\* and wrote its altitude.
C9_Witness ==
    /\ LastIsGGA
    /\ gps_call.out = "done"
    /\ gps_call.pre.fix = "Valid"
    /\ gps_call.pre.lat # Num(0, 1)
    /\ gps_data.alt # gps_call.pre.alt

\* C10: after a well-formed positioning sentence with a valid-fix flag was
\* ingested, over any prior snapshot, ingesting the same sentence again leaves
\* the snapshot (parsed fields and raw cache) as it is.
C10_SecondIngestChangesNothing ==
    (uart_readline /\ LastIsRMC /\ gps_call.out = "done" /\ gps_data.fix = "Valid")
        => ReadLine(gps_data, led, gps_call.line).g = gps_data

\* A valid-fix positioning sentence was ingested over a snapshot that other
\* sentences had filled, and changed it.
C10_Witness ==
    /\ uart_readline /\ LastIsRMC /\ gps_call.out = "done" /\ gps_data.fix = "Valid"
    /\ gps_call.pre # GpsDataInit
    /\ gps_call.pre.raw_nmea # GpsDataInit.raw_nmea
    /\ gps_data # gps_call.pre

\* The last read_gps call processed an unrecognized sentence: a line that starts
\* with "$" and whose type is none of the four the cache keeps a slot for
LastUnrecognized ==
    /\ gps_call.out \notin {"none", "not_read"}
    /\ StartsWith(LastDecoded, "$")
    /\ Slice(LastDecoded, 1, 6) \notin FourKeys

\* The most recent ten entries of a list, in order
LastTen(q) == IF Len(q) > 10 THEN SubSeq(q, Len(q) - 9, Len(q)) ELSE q

\* C11: after any sequence of ingests raw_nmea["OTHER"] is a list of at most 10
\* entries, the most recently ingested unrecognized sentences in arrival order:
\* an unrecognized sentence is appended (the oldest entry leaving a full list) and
\* no other line changes the list.
C11_OtherHoldsLastTenUnrecognized ==
    /\ gps_data.raw_nmea["OTHER"].t = "list"
    /\ Len(gps_data.raw_nmea["OTHER"].v) <= 10
    /\ gps_call.pre.raw_nmea["OTHER"].t = "list" =>
           gps_data.raw_nmea["OTHER"].v =
               IF LastUnrecognized
               THEN LastTen(Append(gps_call.pre.raw_nmea["OTHER"].v, LastDecoded))
               ELSE gps_call.pre.raw_nmea["OTHER"].v

\* C12: a connect event that arrives while the connection set is not empty issues
\* a forced disconnect for every handle of the set and leaves the set holding
\* exactly the new handle.
C12_ConnectEvictsAll ==
    [][(ble.connections # {} /\ ble.link \subseteq ble'.link /\ ble'.link # ble.link) =>
          /\ ble'.forced = ble.connections
          /\ ble'.connections = ble'.link \ ble.link]_vars

\* Handle 1 connected while handle 0 was held: 0 was disconnected, the set is {1}.
C12_Witness == ble.forced = {0} /\ ble.connections = {1} /\ ble.link = {0, 1}

\* C13: every disconnect event, for any handle (one evicted from the set before
\* included), completes without raising, leaves the handle out of the connection
\* set and restarts advertising.
C13_DisconnectAlwaysCompletes ==
    [][(ble'.radio /\ ble'.link \subseteq ble.link /\ ble'.link # ble.link) =>
          /\ ~ble'.irq_error
          /\ (ble.link \ ble'.link) \cap ble'.connections = {}
          /\ ble'.advertising]_vars

\* C14: activate() on an active notifier and deactivate() on an inactive one
\* change nothing (no field of the handler, no radio operation), so that
\* activate(); activate() leaves what activate() leaves and deactivate();
\* deactivate() what deactivate() leaves.
C14_ActivateDeactivateIdempotent ==
    /\ \A h \in ValueHandles :
          /\ ble.is_active => BleActivate(ble, h) = ble
          /\ \A h2 \in ValueHandles :
                BleActivate(BleActivate(ble, h), h2) = BleActivate(ble, h)
    /\ ~ble.is_active => BleDeactivate(ble) = ble
    /\ BleDeactivate(BleDeactivate(ble)) = BleDeactivate(ble)

\* An active notifier with a client and a refreshed value, on which a second
\* registration, write or advertise call would show.
C14_Witness ==
    /\ ble.is_active /\ ~ble.advertising
    /\ ble.connections # {}
    /\ ble.refreshed_from # None

\* C15: after deactivate() the notifier is inactive and its connection set is
\* empty, and the set stays empty until the next activate(): while the notifier
\* is inactive the set is empty.
C15_InactiveHasNoConnections == ~ble.is_active => ble.connections = {}

\* The notifier was deactivated after a client had been evicted by a newer one.
C15_Witness ==
    /\ ~ble.is_active /\ ~ble.radio
    /\ ble.registered >= 1
    /\ ble.forced # {}
    /\ ble.connections = {}

\* C16: in a refresh on an active notifier, the handles whose notification fails
\* are removed from the connection set and no other handle is; the characteristic
\* holds the new text and every remaining handle was notified.
C16_NotifyFailureEvictsOnlyThatHandle ==
    [][(ble.is_active /\ update_nmea_data) =>
          /\ ble'.notify_failed \subseteq ble.connections
          /\ ble'.connections = ble.connections \ ble'.notify_failed
          /\ ble'.notified = ble'.connections
          /\ ble'.value = Str(NmeaText(gps_data.raw_nmea))]_vars

\* A refresh wrote the value, failed to notify its client and dropped it, while
\* the client's link was still up.
C16_Witness ==
    /\ ble.is_active
    /\ ble.notify_failed # {}
    /\ ble.notify_failed \subseteq ble.link
    /\ ble.connections = {}
    /\ ble.notified = {}
    /\ ble.value = Str(PlaceholderText)

\* The line a sentence class contributes to a refresh: the GN entry if there is
\* one, else the GP entry, else none
ClassLine(cache, gn, gp) ==
    IF cache[gn] # None THEN <<cache[gn].v>>
    ELSE IF cache[gp] # None THEN <<cache[gp].v>>
    ELSE <<>>
RefreshLines(cache) == ClassLine(cache, "GNRMC", "GPRMC") \o ClassLine(cache, "GNGGA", "GPGGA")

\* C17: when a positioning or altitude sentence is cached, the text a refresh
\* writes is the CRLF-join of at most two lines, the positioning line first and
\* the altitude line second, each the GN entry if present and else the GP entry;
\* a class with neither entry contributes no line.
C17_GnPreferredPositioningFirst ==
    (ble.refreshed_from # None /\ RefreshLines(ble.refreshed_from) # <<>>) =>
        ble.value = Str(IF Len(RefreshLines(ble.refreshed_from)) = 1
                        THEN RefreshLines(ble.refreshed_from)[1]
                        ELSE RefreshLines(ble.refreshed_from)[1] \o "\r\n"
                                 \o RefreshLines(ble.refreshed_from)[2])

\* A refresh ran with both positioning variants and an altitude sentence cached.
C17_Witness ==
    /\ ble.refreshed_from # None
    /\ ble.refreshed_from["GNRMC"] # None
    /\ ble.refreshed_from["GPRMC"] # None
    /\ Len(RefreshLines(ble.refreshed_from)) = 2
    /\ ble.value # Str(PlaceholderText)

\* C18: when the deep-sleep (prolonged inactivity) timer elapses in state idle,
\* the transition to deep sleep deactivates the notifier (radio off, inactive,
\* connection set empty), powers the GPS down, arms the external wake interrupt
\* and suspends execution, every one of these effects performed.
C18_DeepSleepPerformsEveryEffect ==
    [][(pm.state = "idle" /\ prolonged_inactivity_timer_fires) =>
          /\ pm'.state = "deep_sleep"
          /\ ~ble'.radio /\ ~ble'.is_active /\ ble'.connections = {}
          /\ ~dev'.crashed
          /\ dev'.wake_armed
          /\ dev'.suspended]_vars

\* C19: a peripheral call that fails during a power-state transition is not
\* propagated out of the transition, and the transition still sets the target
\* state and performs its remaining side effects: no handler ends in an
\* exception, and a device in state deep_sleep has its wake interrupt armed and
\* is suspended.
C19_TransitionFailureContained ==
    /\ ~dev.crashed
    /\ pm.state = "deep_sleep" => (dev.wake_armed /\ dev.suspended)

\* C20: in every reachable state the deep-sleep (prolonged inactivity) timer is
\* armed only while the state is idle.
C20_DeepSleepTimerOnlyInIdle ==
    Armed(pm.prolonged_inactivity_timer) => pm.state = "idle"

\* C21: the power state changes only along active -> idle, idle -> active,
\* idle -> deep_sleep and deep_sleep -> active, and it becomes deep_sleep only from
\* idle and only by the prolonged inactivity (deep-sleep) timer's callback, under
\* every interleaving of timer callbacks, button events and user interactions.
C21_OnlyDeclaredTransitions ==
    [][pm'.state # pm.state =>
          /\ <<pm.state, pm'.state>> \in
                {<<"active", "idle">>, <<"idle", "active">>,
                 <<"idle", "deep_sleep">>, <<"deep_sleep", "active">>}
          /\ pm'.state = "deep_sleep" =>
                (pm.state = "idle" /\ prolonged_inactivity_timer_fires)]_vars

\* C22: the first pulse pps_handler handles stores no interval (pps keeps its
\* initial value) and sets last_pps_time; the n-th pulse (n >= 2) stores as pps the
\* signed difference between its timestamp and the timestamp of pulse n-1 (on the
\* ring of the tick counter: congruent to the difference modulo the period, and
\* the difference itself when less than half a period lies between the two); every
\* pulse sets last_pps_time to its own timestamp.
C22_PpsIsIntervalBetweenPulses ==
    LET q == pps_call.pulses
        n == Len(pps_call.pulses)
    IN /\ n = 0 => (last_pps_time = None /\ gps_data.pps = GpsDataInit.pps)
       /\ n >= 1 => last_pps_time = Num(q[n], 1)
       /\ n = 1 => gps_data.pps = GpsDataInit.pps
       /\ n >= 2 =>
             /\ gps_data.pps.t = "num" /\ gps_data.pps.d = 1
             /\ (gps_data.pps.n - (q[n] - q[n - 1])) % TICKS_PERIOD = 0
             /\ gps_data.pps.n >= -(TICKS_PERIOD \div 2)
             /\ gps_data.pps.n < TICKS_PERIOD \div 2
             /\ (q[n] - q[n - 1] >= 0 /\ q[n] - q[n - 1] < TICKS_PERIOD \div 2)
                   => gps_data.pps.n = q[n] - q[n - 1]

\* A second pulse came one second after a first one whose timestamp was 0 (the
\* tick counter had just wrapped), and the interval stored is that second.
C22_Witness ==
    /\ Len(pps_call.pulses) = 2
    /\ pps_call.pulses[1] = 0
    /\ pps_call.pin_value = 1
    /\ gps_data.pps = Num(1000000, 1)
    /\ last_pps_time = Num(1000000, 1)

\* C23: an exception that surfaces in the main loop is caught at the top level and
\* the loop goes on; if its description names bluetooth the notifier is
\* deactivated and a one-shot reactivation timer is armed (whose callback makes
\* the notifier active again); for any other exception the notifier's active
\* state is unchanged.
C23_LoopSurvivesEveryException ==
    [][loop_exception =>
          /\ main'.alive
          /\ IF Contains(Lower(main'.last_exc.v), "bluetooth")
             THEN /\ ~ble'.is_active
                  /\ main'.reactivate_timers = main.reactivate_timers + 1
             ELSE ble'.is_active = ble.is_active]_vars

\* A position token as the statement reads it: the digits before its point and
\* after it, whether it is degrees and minutes (one point, digits only, at least
\* one degree digit before the two minute digits), and the value degrees +
\* minutes / 60 of such a token with the sign of its hemisphere, as one fraction
IntegerPart(tok) ==
    IF FindChar(tok, ".", 1) = 0 THEN tok ELSE Slice(tok, 0, FindChar(tok, ".", 1) - 1)
FractionPart(tok) ==
    IF FindChar(tok, ".", 1) = 0 THEN "" ELSE Slice(tok, FindChar(tok, ".", 1), Len(tok))
IsDegMin(tok) ==
    /\ FindChar(tok, ".", 1) # 0
    /\ AllIn(IntegerPart(tok), Digits) /\ AllIn(FractionPart(tok), Digits)
    /\ Len(IntegerPart(tok)) >= 3
HasNoValue(tok) ==
    \/ Len(IntegerPart(tok)) < 2
    \/ FindChar(tok, ".", 1) = 0
    \/ FindChar(FractionPart(tok), ".", 1) # 0
DegMinValue(ip, fp, sign) ==
    Float(sign * (DigitsValue(DropLast(ip, 2), 0) * 60 * Pow10(Len(fp))
                    + DigitsValue(TakeLast(ip, 2) \o fp, 0)),
          60 * Pow10(Len(fp)))
Converted(tok, negative, stored, before) ==
    /\ IsDegMin(tok) =>
          stored = DegMinValue(IntegerPart(tok), FractionPart(tok), IF negative THEN -1 ELSE 1)
    /\ HasNoValue(tok) => stored = before

\* C24: a position token DDMM.mmm of a valid-fix positioning sentence is stored
\* as degrees + minutes / 60, degrees being the integer part without its last two
\* digits and minutes those two digits with the fraction, negated for hemisphere
\* S (latitude) or W (longitude); a token with fewer than 2 digits before the
\* point, or without exactly one point, gives no value and the stored coordinate
\* stays what it was.
C24_DegreesMinutesConversion ==
    (gps_call.out = "done" /\ LastIsRMC /\ LastFieldCount >= 9
        /\ Split(LastDecoded, ",")[3] = "A") =>
        /\ Converted(Split(LastDecoded, ",")[4], Split(LastDecoded, ",")[5] = "S",
                     gps_data.lat, gps_call.pre.lat)
        /\ Converted(Split(LastDecoded, ",")[6], Split(LastDecoded, ",")[7] = "W",
                     gps_data.lon, gps_call.pre.lon)

\* "4807.038" South was stored as -48.1173 over a snapshot that held another
\* latitude, next to a longitude token without a point that left the longitude.
C24_Witness ==
    /\ gps_call.out = "done"
    /\ Split(LastDecoded, ",")[4] = "4807.038" /\ Split(LastDecoded, ",")[5] = "S"
    /\ Split(LastDecoded, ",")[6] = "12345"
    /\ gps_data.lat = Float(-481173, 10000)
    /\ gps_call.pre.lat # Num(0, 1)
    /\ gps_data.lon = gps_call.pre.lon /\ gps_data.lon # Num(0, 1)

\* C25: a connect or disconnect event handled at any point of a running refresh
\* never makes _update_nmea_data raise (a failure inside it ends in its own except
\* clause), never leaves the connection set with more than one handle, and never
\* has the refresh remove the handle that the interleaved connect event admitted.
C25_InterleavedEventsAreSafe ==
    [][/\ Cardinality(ble'.connections) <= 1
       /\ refresh_remove => refresh.admitted \subseteq ble'.connections]_vars

\* C26: while the notifier is active and a client stays connected, the main loop
\* keeps pushing: whether or not the client sends read requests, a refresh (the
\* characteristic written, the connected handle notified) happens again and again.
C26_LoopKeepsNotifying ==
    <>[](ble.is_active /\ ble.connections # {}) => []<>(<<update_nmea_data>>_vars)

\* The satellite list the statement describes for the fields of a GSV sentence:
\* one entry for every group of four fields from field 4 on whose id is not
\* blank, in order, a value that is blank or not a number being unknown (None)
IntOrUnknown(x) == IF ParseInt(x).ok THEN ParseInt(x).v ELSE None
RECURSIVE ListedSatellites(_, _)
ListedSatellites(data, i) ==
    IF i >= Len(data) - 3 THEN <<>>
    ELSE (IF Strip(At(data, i)) = "" THEN <<>>
          ELSE <<[id |-> IntOrUnknown(At(data, i)),
                  elevation |-> IntOrUnknown(At(data, i + 1)),
                  azimuth |-> IntOrUnknown(At(data, i + 2)),
                  snr |-> IntOrUnknown(At(data, i + 3))]>>)
         \o ListedSatellites(data, i + 4)

\* C27: ingesting a GSV sentence replaces the satellite list by one entry per
\* 4-field group with a non-blank id, in sentence order; a malformed elevation,
\* azimuth or signal-to-noise value is unknown in its entry and the satellite is
\* still listed, and no malformed value ends the processing of the sentence.
C27_GsvListsEveryIdentifiedSatellite ==
    (LastIsGSV /\ gps_call.out \notin {"none", "not_read"} /\ LastFieldCount >= 4) =>
        gps_data.satellites = ListedSatellites(Split(LastDecoded, ","), 4)

C29_OtherTakesNoRecognizedSentence ==
    (LastIsRMC \/ LastIsGGA \/ LastIsGSV) =>
        gps_data.raw_nmea["OTHER"] = gps_call.pre.raw_nmea["OTHER"]

\* C30: in every reachable state is_active() is true exactly when the radio is
\* powered on, after any sequence of activate(), deactivate(), power-state
\* transitions (enter_deep_sleep, wake_from_deep_sleep) and top-level fault
\* recovery.
C30_ActiveIffRadioOn == ble.is_active <=> ble.radio

\* The controller is in deep_sleep, entered by the power button, after a
\* bluetooth fault had the notifier deactivated and its timer reactivated it.
C30_Witness ==
    /\ pm.state = "deep_sleep"
    /\ main.faults >= 1 /\ main.reactivate_timers = 0
    /\ ble.registered >= 2
    /\ ble.is_active /\ ble.radio

\* C31: between handler runs, the parser's poll interval is the active interval
\* (1000 ms) whenever the power state is active and the idle interval (30000 ms)
\* whenever it is idle, on every path into active, the one through deep sleep
\* and wake_from_deep_sleep included.
C31_IntervalFollowsPowerState ==
    /\ pm.state = "active" => update_interval = 1000
    /\ pm.state = "idle" => update_interval = 30000

\* C32: when a call of handle_user_interaction has returned, the power state is
\* active, also when a timer's callback (inactivity timer, screen timer,
\* deep-sleep timer) ran between the handler's state test and its rearming or
\* cancelling of the timers.
C32_InteractionEndsActive ==
    [][(dev.in_call # "returned" /\ dev'.in_call = "returned") => pm'.state = "active"]_vars

\* C33: after a valid-fix positioning sentence whose latitude and longitude
\* tokens both convert to a value, the snapshot's lat and lon are the converted
\* values with the hemisphere's sign, a converted value of exactly 0 included;
\* no coordinate stored before survives.
C33_ZeroCoordinateIsStored ==
    (gps_call.out = "done" /\ LastIsRMC /\ LastFieldCount >= 9
        /\ Split(LastDecoded, ",")[3] = "A"
        /\ IsDegMin(Split(LastDecoded, ",")[4]) /\ IsDegMin(Split(LastDecoded, ",")[6])) =>
        /\ gps_data.lat = DegMinValue(IntegerPart(Split(LastDecoded, ",")[4]),
                                      FractionPart(Split(LastDecoded, ",")[4]),
                                      IF Split(LastDecoded, ",")[5] = "S" THEN -1 ELSE 1)
        /\ gps_data.lon = DegMinValue(IntegerPart(Split(LastDecoded, ",")[6]),
                                      FractionPart(Split(LastDecoded, ",")[6]),
                                      IF Split(LastDecoded, ",")[7] = "W" THEN -1 ELSE 1)

\* C34: after any sequence of ingested lines, whatever their 5-character type
\* keys (the literal OTHER included), raw_nmea["OTHER"] is a list, each of the keys
\* GPRMC, GNRMC, GPGGA, GNGGA holds nothing or a sentence of its type, and an
\* unrecognized or satellite-detail sentence just read is the list's last entry.
C34_CacheKeepsItsShape ==
    /\ gps_data.raw_nmea["OTHER"].t = "list"
    /\ \A k \in FourKeys :
          \/ gps_data.raw_nmea[k] = None
          \/ /\ gps_data.raw_nmea[k].t = "str"
             /\ StartsWith(gps_data.raw_nmea[k].v, "$" \o k)
    /\ (LastUnrecognized /\ Slice(LastDecoded, 1, 6) # "OTHER") =>
          /\ gps_call.out # "caught" \/ gps_call.pre.raw_nmea["OTHER"].t = "list"
          /\ gps_data.raw_nmea["OTHER"].t = "list" =>
                /\ gps_data.raw_nmea["OTHER"].v # <<>>
                /\ gps_data.raw_nmea["OTHER"].v[Len(gps_data.raw_nmea["OTHER"].v)] = LastDecoded

====
